---- MODULE Spec2Model ----
(***************************************************************************)
(* GreenMorph gamification core: the check-and-grant endpoint, the         *)
(* user_achievements table, and the front-end handlers that trigger the    *)
(* check (publish post, comment, like, generate plan, profile view).       *)
(***************************************************************************)
EXTENDS Bags, FiniteSets, Integers, Naturals, Sequences, TLC

(* ------------------------------ bounds --------------------------------- *)
\* number of front-end handlers that run in a behaviour
MaxRuns == 2
\* number of check-and-grant invocations when callers are arbitrary
MaxCalls == 2
\* largest counter value and threshold tried on the progress evaluator
MaxProgress == 50
MaxTarget == 12
\* points of a user run up to MaxPoints
MaxPoints == 203
\* the leaderboard ranks up to MaxPopulation users
MaxPopulation == 102
\* the list of a user's achievements holds up to MaxListed views
MaxListed == 4
\* the points of a user of the points table run up to MaxTablePoints
MaxTablePoints == 2

(* --------------------------- fixed population -------------------------- *)
Users == {1, 2}
\* the account logged in at this browser (useAuthStore().user.id)
CurrentUser == 1
\* post p is owned by user PostOwner[p]
Posts == {1, 2}
PostOwner == [p \in Posts |-> p]

CondTypes == {"post_count", "likes_received", "comment_count", "project_count"}

\* seeded achievement definitions: id, condition_type, condition_value
Catalog ==
  << [id |-> 1, condition_type |-> "post_count",     condition_value |-> 1],
     [id |-> 2, condition_type |-> "likes_received", condition_value |-> 1] >>

Achs == 1..Len(Catalog)

\* the counters an achievement of the catalog depends on
CatalogTypes == {Catalog[a].condition_type : a \in Achs}

\* the front-end handlers, and the places where one of them posts to achievements/check
Kinds == {"createPost", "comment", "like", "redesign", "profile", "refresh"}
\* the handlers of a business action, each with a primary request
ActionKinds == {"createPost", "comment", "like", "redesign"}
Slots == {"createPost", "comment", "like", "redesign", "fetch", "notify", "refresh"}

VARIABLES
  counters,          \* ActivityCounters: counters[u][condition_type]
  liked,             \* likes table restricted to CurrentUser: liked[p]
  userAchievements,  \* user_achievements table: set of rows
  now,               \* server clock (CURRENT_TIMESTAMP), read as the order of the inserts
  calls,             \* check-and-grant invocations, by the place that issued them
  runs,              \* the front-end handlers: position and local state of each
  displays,          \* bag of messages shown to the user about achievements
  timers,            \* pending setTimeout(onAchievementsUpdated, 2000) callbacks
  isAuthenticated,   \* auth store: isAuthenticated (user is non-null exactly then)
  auth_token,        \* localStorage has an auth_token
  ev_progress,       \* progress evaluator: counter value
  ev_target,         \* progress evaluator: condition_value
  ev_pct,            \* progress evaluator: progress_percentage computed
  ev_prev_progress,  \* progress evaluator: counter value at the evaluation before
  ev_prev_pct,       \* progress evaluator: progress_percentage of the evaluation before
  lv_points,         \* level display: points of the user rendered
  lv_skill_level,    \* level display: skill_level stored for that user
  lv_level,          \* level display: realTimeLevel, the level computed from the points
  lv_card,           \* level display: name shown on the level card of the profile page
  lv_width,          \* level display: width of the progress bar, in halves of a percent
  lv_row,            \* level display: name shown in the user's row of the leaderboard
  lv_home,           \* level display: name shown on the level card of the home page
  rk_total,          \* ranking: number of users with points, total_users of the replies
  rk_user,           \* ranking: userId passed to fetchUserRanking
  rk_pc,             \* ranking: position of fetchUserRanking
  rk_index,          \* ranking: currentUserRank, the result of findIndex; -2 before
  rk_queries,        \* ranking: requests to leaderboard/user/{userId} issued
  rk_ranking,        \* ranking: the userRanking state of the page
  rk_before,         \* ranking: userRanking when fetchUserRanking was called
  rk_error,          \* ranking: message.error was shown
  sv_list,           \* achievement list: result.data.achievements of the reply
  sv_shown,          \* achievement list: the userAchievements state of the page
  sv_state,          \* achievement list: waiting for the reply, list shown, or failed
  tb_points,         \* points table: points of each user
  tb_first,          \* points table: user_ids of a first topN reply
  tb_second,         \* points table: user_ids of a second topN reply
  tb_query,          \* points table: user and rank of a reply of the per-user rank query
  au_user,           \* auth store: user is non-null
  au_token,          \* auth store: token is non-null
  au_isLoading,      \* auth store: isLoading
  au_pc,             \* auth store: position of login, register and checkAuth
  au_result,         \* auth store: how the last login and the last register settled
  au_loggedOut,      \* auth store: logout has run and no login has succeeded since
  audit              \* what each invocation read; kept only when the endpoint is studied alone

vars == << counters, liked, userAchievements, now, calls, runs, displays,
           timers, isAuthenticated, auth_token, ev_progress, ev_target, ev_pct,
           ev_prev_progress, ev_prev_pct, lv_points, lv_skill_level, lv_level,
           lv_card, lv_width, lv_row, lv_home, rk_total, rk_user, rk_pc, rk_index,
           rk_queries, rk_ranking, rk_before, rk_error, sv_list, sv_shown, sv_state,
           tb_points, tb_first, tb_second, tb_query, au_user, au_token, au_isLoading,
           au_pc, au_result, au_loggedOut, audit >>

serverVars == << counters, liked, userAchievements, now >>
levelVars == << lv_points, lv_skill_level, lv_level, lv_card, lv_width, lv_row, lv_home >>
progressVars == << ev_progress, ev_target, ev_pct, ev_prev_progress, ev_prev_pct >>
rankVars == << rk_total, rk_user, rk_pc, rk_index, rk_queries, rk_ranking, rk_before, rk_error >>
\* inputs and results of the computations studied alone
listVars == << sv_list, sv_shown, sv_state >>
tableVars == << tb_points, tb_first, tb_second, tb_query >>
storeVars == << au_user, au_token, au_isLoading, au_pc, au_result, au_loggedOut >>
evalVars == << progressVars, levelVars, rankVars, listVars, tableVars, storeVars >>
\* what the study of one computation leaves alone
notProgress == << levelVars, rankVars, listVars, tableVars, storeVars >>
notLevel == << progressVars, rankVars, listVars, tableVars, storeVars >>
notRank == << progressVars, levelVars, listVars, tableVars, storeVars >>
notList == << progressVars, levelVars, rankVars, tableVars, storeVars >>
notTable == << progressVars, levelVars, rankVars, listVars, storeVars >>
notStore == << progressVars, levelVars, rankVars, listVars, tableVars >>
\* what the auth store leaves alone
pageVars == << serverVars, calls, runs, displays, timers, audit >>

authVars == << isAuthenticated, auth_token >>
\* the state of the pages and of the endpoint
appVars == << serverVars, authVars, calls, runs, displays, timers, audit >>

(* ------------------------- ProgressEvaluator --------------------------- *)
Min(a, b) == IF a <= b THEN a ELSE b

\* round(x / y) for x >= 0, y > 0, halves rounded up
RoundDiv(x, y) == (2 * x + y) \div (2 * y)

ProgressPercentage_NoClamp(progress, target) == RoundDiv(100 * progress, target)

ProgressPercentage_Modulo(progress, target) == RoundDiv(100 * (progress % target), target)

\* progress_percentage = round(100 * min(progress, target) / target)
ProgressPercentage(progress, target) == RoundDiv(100 * Min(progress, target), target)

Qualifies_NoThreshold(snap, a) == snap[Catalog[a].condition_type] >= 0

\* status by counter value: the counter named by the condition type has reached the threshold
Qualifies(snap, a) == snap[Catalog[a].condition_type] >= Catalog[a].condition_value

(* ------------------------ user_achievements table ---------------------- *)
HasRow_ById(table, u, a) == \E row \in table : row.user_id = u /\ row.id = a

HasRow(table, u, a) == \E row \in table : row.user_id = u /\ row.achievement_id = a

RowsOf(table, u, a) == {row \in table : row.user_id = u /\ row.achievement_id = a}

NewRow(table, u, a, t) ==
  [id |-> Cardinality(table) + 1, user_id |-> u, achievement_id |-> a, earned_at |-> t]

InsertUserAchievement_NoUniqueKey(table, u, a, t) == table \cup {NewRow(table, u, a, t)}

\* INSERT INTO user_achievements under UNIQUE KEY (user_id, achievement_id):
\* the insert is refused when a row for the pair exists
InsertUserAchievement(table, u, a, t) ==
  IF HasRow(table, u, a) THEN table ELSE table \cup {NewRow(table, u, a, t)}

(* ------------------------------ GrantEngine ---------------------------- *)
ZeroCounters == [t \in CondTypes |-> 0]

\* the counter values an invocation reads: those a definition of the catalog names
Snapshot(cs) == [t \in CatalogTypes |-> cs[t]]

NoCall ==
  [user_id |-> 0, st |-> "none", pending |-> {}, new |-> {}, failed |-> {}, code |-> 0]

\* snap: the counters read; cand: what qualified without a row; after: the invocations
\* that had answered when this one was issued
NoAudit == [snap |-> Snapshot(ZeroCounters), cand |-> {}, after |-> {}]

\* a request for user u leaves the browser
NewCall(u) == [NoCall EXCEPT !.user_id = u, !.st = "sent"]

\* the invocation reads the counters and the rows; whatever qualifies and has no row is a candidate
ServerSnapshot(c) ==
  /\ calls[c].st = "sent"
  /\ LET u == calls[c].user_id
         cs == {a \in Achs : Qualifies(counters[u], a) /\ ~HasRow(userAchievements, u, a)}
     IN calls' = [calls EXCEPT ![c] = [@ EXCEPT !.st = "granting", !.pending = cs]]
  /\ UNCHANGED << runs, displays, timers >>
  /\ UNCHANGED serverVars /\ UNCHANGED authVars /\ UNCHANGED evalVars

\* the record of what ServerSnapshot(c) read
Audited(c) ==
  audit' = [audit EXCEPT ![c] = [@ EXCEPT !.snap = Snapshot(counters[calls[c].user_id]),
                                          !.cand = calls'[c].pending]]

CountersUnavailable_Swallowed(call) == [call EXCEPT !.st = "replied", !.code = 200]

\* the answer of a check that could not read the counters: an error, nothing granted
CountersUnavailable(call) == [call EXCEPT !.st = "replied", !.code = 503]

\* the counter source is down: the whole check fails (CountersUnavailable)
ServerCountersUnavailable(c) ==
  /\ calls[c].st = "sent"
  /\ calls' = [calls EXCEPT ![c] = CountersUnavailable(@)]
  /\ UNCHANGED << runs, displays, timers >>
  /\ UNCHANGED serverVars /\ UNCHANGED authVars /\ UNCHANGED evalVars /\ UNCHANGED audit

\* the loop is done with definition a; after the last one the response is sent
Attempted(call, a) ==
  IF call.pending = {a}
    THEN [call EXCEPT !.pending = {}, !.st = "replied", !.code = 200]
    ELSE [call EXCEPT !.pending = @ \ {a}]

AfterInsert_DuplicateFails(call, a, inserted) ==
  IF inserted THEN Attempted([call EXCEPT !.new = @ \cup {a}], a)
              ELSE [call EXCEPT !.pending = {}, !.st = "replied", !.code = 500]

\* the invocation after its insert for a: reported as new only when the row went in;
\* a row that was already there (DuplicateGrantRace) is passed over
AfterInsert(call, a, inserted) ==
  Attempted([call EXCEPT !.new = IF inserted THEN @ \cup {a} ELSE @], a)

AfterFailedWrite_GivesUp(call, a) ==
  [call EXCEPT !.failed = @ \cup {a}, !.pending = {}, !.st = "replied", !.code = 200]

\* the invocation after the write for a failed: a is noted and the loop goes on
AfterFailedWrite(call, a) == Attempted([call EXCEPT !.failed = @ \cup {a}], a)

\* the definition the loop over the catalog is at
NextPending(c) == CHOOSE a \in calls[c].pending : \A b \in calls[c].pending : a <= b

\* one grant attempt; the insert's success is the only signal for "newly granted"
ServerInsert(c, a) ==
  /\ calls[c].st = "granting"
  /\ calls[c].pending # {}
  /\ a = NextPending(c)
  /\ LET u == calls[c].user_id
         table == InsertUserAchievement(userAchievements, u, a, now)
         inserted == table # userAchievements
     IN /\ userAchievements' = table
        /\ now' = IF inserted THEN now + 1 ELSE now
        /\ calls' = [calls EXCEPT ![c] = AfterInsert(@, a, inserted)]
  /\ UNCHANGED << counters, liked, runs, displays, timers >>
  /\ UNCHANGED authVars /\ UNCHANGED evalVars /\ UNCHANGED audit

\* a grant write fails for one achievement; the others are still attempted
ServerInsertFails(c, a) ==
  /\ calls[c].st = "granting"
  /\ calls[c].pending # {}
  /\ a = NextPending(c)
  /\ calls' = [calls EXCEPT ![c] = AfterFailedWrite(@, a)]
  /\ UNCHANGED << runs, displays, timers >>
  /\ UNCHANGED serverVars /\ UNCHANGED authVars /\ UNCHANGED evalVars /\ UNCHANGED audit

\* the invocation fails on the server and stops where it is: before the counters are
\* read, or between two grant attempts; the rows it has inserted are committed
ServerAborts(c) ==
  /\ calls[c].st \in {"sent", "granting"}
  /\ calls' = [calls EXCEPT ![c] = [@ EXCEPT !.st = "failed", !.code = 500]]
  /\ UNCHANGED << runs, displays, timers >>
  /\ UNCHANGED serverVars /\ UNCHANGED authVars /\ UNCHANGED evalVars /\ UNCHANGED audit

\* nothing qualified: the response carries an empty list
ServerRespond(c) ==
  /\ calls[c].st = "granting"
  /\ calls[c].pending = {}
  /\ calls' = [calls EXCEPT ![c] = [@ EXCEPT !.st = "replied", !.code = 200]]
  /\ UNCHANGED << runs, displays, timers >>
  /\ UNCHANGED serverVars /\ UNCHANGED authVars /\ UNCHANGED evalVars /\ UNCHANGED audit

(* --------------------------- AchievementView --------------------------- *)
\* earned_at of a view that is not achieved
Null == -1

ViewStatus_ByCounter(table, cs, u, a) ==
  IF Qualifies(cs, a) THEN "achieved" ELSE "locked"

\* status of the view: achieved once the grant row exists
ViewStatus(table, cs, u, a) ==
  IF HasRow(table, u, a) THEN "achieved" ELSE "locked"

\* earned_at of the view: that of the grant row
ViewEarnedAt(table, u, a) ==
  IF HasRow(table, u, a)
  THEN (CHOOSE row \in RowsOf(table, u, a) : TRUE).earned_at
  ELSE Null

\* the view of achievement a derived for user u from the counters and the rows
AchievementView(u, a) ==
  LET target == Catalog[a].condition_value
      progress == Min(counters[u][Catalog[a].condition_type], target)
  IN [status |-> ViewStatus(userAchievements, counters[u], u, a),
      progress |-> progress,
      target |-> target,
      progress_percentage |-> ProgressPercentage(progress, target),
      earned_at |-> ViewEarnedAt(userAchievements, u, a)]

(* ---------------------- checkAndNotifyAchievements --------------------- *)
\* what the caller of fetch() observes for the invocation of slot s
Response(s) ==
  [kind |-> "resp", code |-> calls[s].code,
   new |-> IF calls[s].code = 200 THEN calls[s].new ELSE {}]

NetworkError == [kind |-> "neterr", code |-> 0, new |-> {}]
\* the body is not JSON, or code is 200 and data.new_achievements is missing
Malformed == [kind |-> "malformed", code |-> 0, new |-> {}]

\* fetch() rejects when the request never reaches the server or the response is lost;
\* a reply can also carry a 200 or an error code, or be unparsable
Outcomes(s) ==
  CASE calls[s].st = "replied" -> {Response(s), Malformed, NetworkError}
    [] calls[s].st = "sent"    -> {NetworkError}
    [] OTHER                   -> {}

\* a request that failed before reaching the server is never processed
Dropped(s) == IF calls[s].st = "sent" THEN [calls EXCEPT ![s].st = "lost"] ELSE calls

\* the achievements celebrated: result.code === 200 && new_achievements.length > 0, then forEach
NotifierShows(out) ==
  IF out.kind = "resp" /\ out.code = 200 /\ out.new # {} THEN out.new ELSE {}

Celebration(s, a) == [kind |-> "celebration", call |-> s, ach |-> a, n |-> 1]
Summary(s, k) == [kind |-> "summary", call |-> s, ach |-> 0, n |-> k]
ErrorShown(s) == [kind |-> "error", call |-> s, ach |-> 0, n |-> 0]

\* showAchievementNotification once per element of new_achievements
Celebrations(s, out) == SetToBag({Celebration(s, a) : a \in NotifierShows(out)})

\* the delayed refresh is armed only when something was celebrated and a callback was passed
NotifierArms(out, cb) == cb /\ NotifierShows(out) # {}

NotifierSettles_NoCatch(out) == IF out.kind = "resp" THEN "resolved" ELSE "rejected"

\* try { ... } catch (error) { console.error(...) }: the promise always resolves
NotifierSettles(out) == "resolved"

(* ------------------------------ handlers ------------------------------- *)
IdleRun ==
  [pc |-> "idle", call |-> "none", issued |-> {}, primaryOk |-> FALSE,
   rejected |-> FALSE, loading |-> FALSE, aload |-> FALSE, success |-> FALSE,
   error |-> FALSE, closed |-> FALSE, post |-> 0, isLiked |-> FALSE, moved |-> 0]

\* the handlers the user has started; the delayed refresh is a callback, not one of them
StartedKinds == {k \in Kinds \ {"refresh"} : runs[k].pc # "idle"}

CanStart(k) == runs[k].pc = "idle" /\ Cardinality(StartedKinds) < MaxRuns

\* the handler passed its guards and sent the primary request
Started(p, isLiked, withFlag) ==
  [IdleRun EXCEPT !.pc = "primary", !.loading = withFlag, !.post = p, !.isLiked = isLiked]

\* a guard returned early
Rejected == [IdleRun EXCEPT !.pc = "done", !.rejected = TRUE]

\* handleCreatePost up to the POST /api/community/posts
StartCreatePost ==
  /\ CanStart("createPost")
  /\ runs' = [runs EXCEPT !["createPost"] =
                IF isAuthenticated THEN Started(0, FALSE, TRUE) ELSE Rejected]
  /\ UNCHANGED << calls, displays, timers >>
  /\ UNCHANGED serverVars /\ UNCHANGED authVars /\ UNCHANGED evalVars /\ UNCHANGED audit

\* handleSubmitComment up to the POST .../comments; validInput: a post is open and there is content
StartSubmitComment(validInput) ==
  /\ CanStart("comment")
  /\ runs' = [runs EXCEPT !["comment"] =
                IF isAuthenticated /\ validInput /\ auth_token
                  THEN Started(0, FALSE, TRUE) ELSE Rejected]
  /\ UNCHANGED << calls, displays, timers >>
  /\ UNCHANGED serverVars /\ UNCHANGED authVars /\ UNCHANGED evalVars /\ UNCHANGED audit

\* handleLike up to the POST or DELETE .../like; isLiked is read from the post list
StartLike(p) ==
  /\ CanStart("like")
  /\ runs' = [runs EXCEPT !["like"] =
                IF isAuthenticated /\ auth_token THEN Started(p, liked[p], FALSE) ELSE Rejected]
  /\ UNCHANGED << calls, displays, timers >>
  /\ UNCHANGED serverVars /\ UNCHANGED authVars /\ UNCHANGED evalVars /\ UNCHANGED audit

\* handleGenerateRedesign up to the POST /redesign/generate
StartGenerateRedesign(hasAnalysis) ==
  /\ CanStart("redesign")
  /\ runs' = [runs EXCEPT !["redesign"] =
                IF hasAnalysis THEN Started(0, FALSE, TRUE) ELSE Rejected]
  /\ UNCHANGED << calls, displays, timers >>
  /\ UNCHANGED serverVars /\ UNCHANGED authVars /\ UNCHANGED evalVars /\ UNCHANGED audit

\* the counter the primary request moves when the server accepts it: <<user, type, delta>>
Moves(k, run) ==
  CASE k = "createPost" -> << CurrentUser, "post_count", 1 >>
    [] k = "comment"    -> << CurrentUser, "comment_count", 1 >>
    [] k = "redesign"   -> << CurrentUser, "project_count", 1 >>
    [] k = "like"       ->
         << PostOwner[run.post], "likes_received", IF run.isLiked THEN -1 ELSE 1 >>

\* the server accepts the primary request: UNIQUE KEY unique_like, and a token is needed
Accepts(k, run) ==
  CASE k = "like"     -> liked[run.post] = run.isLiked
    [] k = "redesign" -> auth_token
    [] OTHER          -> TRUE

IssuesCheck_IgnoresOk(k, run, ok) ==
  CASE k = "like"     -> ~run.isLiked /\ PostOwner[run.post] = CurrentUser
    [] k = "redesign" -> isAuthenticated
    [] OTHER          -> TRUE

\* whether the handler reaches its checkAndNotifyAchievements call once the primary answered
IssuesCheck(k, run, ok) ==
  CASE k = "like"     -> ok /\ ~run.isLiked /\ PostOwner[run.post] = CurrentUser
    [] k = "redesign" -> ok /\ isAuthenticated
    [] OTHER          -> ok

\* success is reported before the check in handleCreatePost and handleGenerateRedesign
SuccessBeforeCheck(k) == k \in {"createPost", "redesign"}

\* the handler's catch and finally blocks
Failed(run) == [run EXCEPT !.pc = "done", !.call = "none", !.error = TRUE, !.loading = FALSE]

\* the statements after the awaited check, to the next await or the end of the handler
Continues(k, run) ==
  IF k = "createPost"
    THEN [run EXCEPT !.pc = "refetch", !.call = "none", !.closed = TRUE]
    ELSE [run EXCEPT !.pc = "done", !.call = "none", !.success = TRUE, !.loading = FALSE]

\* the primary request is answered (ok: response.ok, with a body that parses) and the
\* handler runs to its next await
PrimaryAnswered(k, ok) ==
  /\ runs[k].pc = "primary"
  /\ ok => Accepts(k, runs[k])
  /\ LET run == runs[k]
         mv == Moves(k, run)
         answered == [run EXCEPT !.primaryOk = ok,
                                 !.success = ok /\ SuccessBeforeCheck(k),
                                 !.moved = IF ok THEN mv[1] ELSE 0]
     IN /\ IF ok
             THEN /\ counters' = [counters EXCEPT ![mv[1]][mv[2]] = @ + mv[3]]
                  /\ liked' = IF k = "like" THEN [liked EXCEPT ![run.post] = ~run.isLiked]
                                            ELSE liked
             ELSE UNCHANGED << counters, liked >>
        /\ IF IssuesCheck(k, run, ok)
             THEN /\ calls' = [calls EXCEPT ![k] = NewCall(CurrentUser)]
                  /\ runs' = [runs EXCEPT ![k] =
                                [answered EXCEPT !.pc = "check", !.call = k, !.issued = {k}]]
             ELSE /\ calls' = calls
                  /\ runs' = [runs EXCEPT ![k] =
                                IF ok THEN [answered EXCEPT !.pc = "done", !.success = TRUE,
                                                            !.loading = FALSE]
                                      ELSE Failed(answered)]
  /\ UNCHANGED << userAchievements, now, displays, timers >>
  /\ UNCHANGED authVars /\ UNCHANGED evalVars /\ UNCHANGED audit

CreatePostAnswered(ok) == PrimaryAnswered("createPost", ok)
CommentAnswered(ok) == PrimaryAnswered("comment", ok)
LikeAnswered(ok) == PrimaryAnswered("like", ok)
RedesignAnswered(ok) == PrimaryAnswered("redesign", ok)

\* the awaited checkAndNotifyAchievements settles with out and the handler runs on;
\* a rejection, or a primary request that had failed, ends in the catch block
CheckSettled(k, out) ==
  /\ runs[k].pc = "check"
  /\ out \in Outcomes(runs[k].call)
  /\ LET run == runs[k]
     IN /\ displays' = displays (+) Celebrations(run.call, out)
        /\ runs' = [runs EXCEPT ![k] =
                      IF NotifierSettles(out) = "resolved" /\ run.primaryOk
                        THEN Continues(k, run) ELSE Failed(run)]
        /\ calls' = Dropped(run.call)
  /\ UNCHANGED timers
  /\ UNCHANGED serverVars /\ UNCHANGED authVars /\ UNCHANGED evalVars /\ UNCHANGED audit

\* handleCreatePost: the awaited fetchPosts() returns, then finally
FetchPostsSettled ==
  /\ runs["createPost"].pc = "refetch"
  /\ runs' = [runs EXCEPT !["createPost"] = [@ EXCEPT !.pc = "done", !.loading = FALSE]]
  /\ UNCHANGED << calls, displays, timers >>
  /\ UNCHANGED serverVars /\ UNCHANGED authVars /\ UNCHANGED evalVars /\ UNCHANGED audit

(* ------------------- profile view: fetchUserAchievements ---------------- *)
\* the handler sends the POST .../achievements/check/{userId} of fetchUserAchievements
FetchStarted(k, s) ==
  [IdleRun EXCEPT !.pc = "fcheck", !.aload = TRUE, !.loading = (k = "profile"),
                  !.call = s, !.issued = {s}]

\* useEffect -> loadUserInfo: with a user the fetches start, without one checkAuth runs
StartLoadUserInfo ==
  /\ CanStart("profile")
  /\ IF isAuthenticated
       THEN /\ runs' = [runs EXCEPT !["profile"] = FetchStarted("profile", "fetch")]
            /\ calls' = [calls EXCEPT !["fetch"] = NewCall(CurrentUser)]
       ELSE /\ runs' = [runs EXCEPT !["profile"] = Rejected]
            /\ calls' = calls
  /\ UNCHANGED << displays, timers >>
  /\ UNCHANGED serverVars /\ UNCHANGED authVars /\ UNCHANGED evalVars /\ UNCHANGED audit

\* the setTimeout callback of checkAndNotifyAchievements: fetchUserAchievements(user.id)
TimerFires ==
  /\ timers > 0
  /\ runs["refresh"].pc = "idle"
  /\ timers' = timers - 1
  /\ runs' = [runs EXCEPT !["refresh"] = FetchStarted("refresh", "refresh")]
  /\ calls' = [calls EXCEPT !["refresh"] = NewCall(CurrentUser)]
  /\ UNCHANGED displays
  /\ UNCHANGED serverVars /\ UNCHANGED authVars /\ UNCHANGED evalVars /\ UNCHANGED audit

\* fetchUserAchievements returned to its caller: loadUserInfo goes on to
\* checkAndNotifyAchievements, the timer callback ends
AfterFetch(k, run) ==
  IF k = "profile"
    THEN [run EXCEPT !.pc = "ncheck", !.aload = FALSE, !.call = "notify",
                     !.issued = @ \cup {"notify"}]
    ELSE [run EXCEPT !.pc = "done", !.aload = FALSE, !.call = "none"]

CallsAfterFetch(k, run) ==
  IF k = "profile" THEN [Dropped(run.call) EXCEPT !["notify"] = NewCall(CurrentUser)]
                   ELSE Dropped(run.call)

FetchSummary_PerAchievement(s, out) ==
  IF out.kind = "resp" /\ out.code = 200
    THEN SetToBag({Celebration(s, a) : a \in out.new}) ELSE EmptyBag

\* message.success(`获得了 N 个新成就！`) when code is 200 and the list is not empty
FetchSummary(s, out) ==
  IF out.kind = "resp" /\ out.code = 200 /\ out.new # {}
    THEN SetToBag({Summary(s, Cardinality(out.new))}) ELSE EmptyBag

\* the check of fetchUserAchievements settles: a response goes on to the list request,
\* an exception goes to catch and finally
FetchCheckSettled(k, out) ==
  /\ k \in {"profile", "refresh"}
  /\ runs[k].pc = "fcheck"
  /\ out \in Outcomes(runs[k].call)
  /\ LET run == runs[k]
     IN IF out.kind = "resp"
          THEN /\ displays' = displays (+) FetchSummary(run.call, out)
               /\ runs' = [runs EXCEPT ![k] = [run EXCEPT !.pc = "flist"]]
               /\ calls' = calls
          ELSE /\ displays' = displays (+) SetToBag({ErrorShown(run.call)})
               /\ runs' = [runs EXCEPT ![k] = [AfterFetch(k, run) EXCEPT !.error = TRUE]]
               /\ calls' = CallsAfterFetch(k, run)
  /\ UNCHANGED timers
  /\ UNCHANGED serverVars /\ UNCHANGED authVars /\ UNCHANGED evalVars /\ UNCHANGED audit

\* GET .../achievements/user/{userId} settles: listOk is code 200 with a parsable body
FetchListSettled(k, listOk) ==
  /\ k \in {"profile", "refresh"}
  /\ runs[k].pc = "flist"
  /\ LET run == runs[k]
     IN /\ displays' = IF listOk THEN displays
                                 ELSE displays (+) SetToBag({ErrorShown(run.call)})
        /\ runs' = [runs EXCEPT ![k] = [AfterFetch(k, run) EXCEPT !.error = ~listOk]]
        /\ calls' = CallsAfterFetch(k, run)
  /\ UNCHANGED timers
  /\ UNCHANGED serverVars /\ UNCHANGED authVars /\ UNCHANGED evalVars /\ UNCHANGED audit

\* loadUserInfo: the awaited checkAndNotifyAchievements(user.id, callback) settles
ProfileCheckSettled(out) ==
  /\ runs["profile"].pc = "ncheck"
  /\ out \in Outcomes(runs["profile"].call)
  /\ LET run == runs["profile"]
     IN /\ displays' = displays (+) Celebrations(run.call, out)
        /\ timers' = IF NotifierArms(out, TRUE) THEN timers + 1 ELSE timers
        /\ runs' = [runs EXCEPT !["profile"] =
                      IF NotifierSettles(out) = "resolved"
                        THEN [run EXCEPT !.pc = "done", !.call = "none", !.loading = FALSE]
                        ELSE [run EXCEPT !.pc = "done", !.call = "none", !.error = TRUE]]
        /\ calls' = Dropped(run.call)
  /\ UNCHANGED serverVars /\ UNCHANGED authVars /\ UNCHANGED evalVars /\ UNCHANGED audit

(* ----------------------------- specification --------------------------- *)
\* the browser starts with the persisted auth state; the database may already hold a like
\* of the user's own post
SystemInit ==
  /\ liked \in {[p \in Posts |-> FALSE], [p \in Posts |-> p = CurrentUser]}
  /\ counters = [u \in Users |->
                   [ZeroCounters EXCEPT !["likes_received"] =
                      Cardinality({p \in Posts : PostOwner[p] = u /\ liked[p]})]]
  /\ userAchievements = {}
  /\ now = 0
  /\ calls = [s \in Slots |-> NoCall]
  /\ runs = [k \in Kinds |-> IdleRun]
  /\ displays = EmptyBag
  /\ timers = 0
  /\ audit = [s \in Slots |-> NoAudit]
  /\ isAuthenticated \in BOOLEAN
  /\ auth_token = isAuthenticated

\* no achievement is being evaluated alone
EvalIdle ==
  /\ ev_progress = 0
  /\ ev_target = 1
  /\ ev_pct = 0
  /\ ev_prev_progress = -1
  /\ ev_prev_pct = -1

\* no level is being rendered alone
LevelIdle ==
  /\ lv_points = 0
  /\ lv_skill_level = "beginner"
  /\ lv_level = "none"
  /\ lv_card = "none"
  /\ lv_width = -1
  /\ lv_row = "none"
  /\ lv_home = "none"

NoRanking == [rank |-> 0, total_users |-> 0, percentile |-> -1]

\* no ranking is being fetched alone
RankIdle ==
  /\ rk_total = 0
  /\ rk_user = 1
  /\ rk_pc = "idle"
  /\ rk_index = -2
  /\ rk_queries = 0
  /\ rk_ranking = NoRanking
  /\ rk_before = NoRanking
  /\ rk_error = FALSE

\* no achievement list is being sorted alone
ListIdle ==
  /\ sv_list = << >>
  /\ sv_shown = << >>
  /\ sv_state = "waiting"

\* the users of the points table
Ranked == 1..3

NoQuery == [user_id |-> 0, rank |-> 0]

\* no points table is being ranked alone
TableIdle ==
  /\ tb_points = [u \in Ranked |-> 0]
  /\ tb_first = << >>
  /\ tb_second = << >>
  /\ tb_query = NoQuery

AuthOps == {"login", "register", "checkAuth"}

\* the rest of the auth store agrees with isAuthenticated and nothing is in flight
StoreIdle ==
  /\ au_user = isAuthenticated
  /\ au_token = isAuthenticated
  /\ au_isLoading = FALSE
  /\ au_pc = [op \in AuthOps |-> "idle"]
  /\ au_result = [op \in {"login", "register"} |-> "none"]
  /\ au_loggedOut = FALSE

Init ==
  /\ SystemInit
  /\ StoreIdle
  /\ EvalIdle
  /\ LevelIdle
  /\ RankIdle
  /\ ListIdle
  /\ TableIdle

AllOutcomes == {NetworkError, Malformed} \cup {Response(s) : s \in Slots}

Server ==
  \/ \E c \in Slots : ServerSnapshot(c) /\ UNCHANGED audit
  \/ \E c \in Slots : ServerCountersUnavailable(c)
  \/ \E c \in Slots, a \in Achs : ServerInsert(c, a)
  \/ \E c \in Slots : ServerRespond(c)

Next ==
  \/ StartCreatePost
  \/ \E validInput \in BOOLEAN : StartSubmitComment(validInput)
  \/ \E p \in Posts : StartLike(p)
  \/ \E hasAnalysis \in BOOLEAN : StartGenerateRedesign(hasAnalysis)
  \/ StartLoadUserInfo
  \/ TimerFires
  \/ \E ok \in BOOLEAN : CreatePostAnswered(ok)
  \/ \E ok \in BOOLEAN : CommentAnswered(ok)
  \/ \E ok \in BOOLEAN : LikeAnswered(ok)
  \/ \E ok \in BOOLEAN : RedesignAnswered(ok)
  \/ \E k \in Kinds, out \in AllOutcomes : CheckSettled(k, out)
  \/ FetchPostsSettled
  \/ \E k \in Kinds, out \in AllOutcomes : FetchCheckSettled(k, out)
  \/ \E k \in Kinds, listOk \in BOOLEAN : FetchListSettled(k, listOk)
  \/ \E out \in AllOutcomes : ProfileCheckSettled(out)
  \/ Server

Spec == Init /\ [][Next]_vars

(* ------------------- the client when a request can hang ---------------- *)
\* fetch() is called without a timeout or an AbortController: the request of slot s
\* neither reaches the server nor fails, and its promise never settles
CheckHangs(s) ==
  /\ calls[s].st = "sent"
  /\ calls' = [calls EXCEPT ![s].st = "hung"]
  /\ UNCHANGED << runs, displays, timers >>
  /\ UNCHANGED serverVars /\ UNCHANGED authVars /\ UNCHANGED evalVars /\ UNCHANGED audit

\* every continuation that is ready runs: the event loop is fair to settled promises
Settles ==
  \/ \E k \in ActionKinds, ok \in BOOLEAN : PrimaryAnswered(k, ok)
  \/ \E k \in Kinds, out \in AllOutcomes : CheckSettled(k, out)
  \/ FetchPostsSettled
  \/ \E k \in Kinds, out \in AllOutcomes : FetchCheckSettled(k, out)
  \/ \E k \in Kinds, listOk \in BOOLEAN : FetchListSettled(k, listOk)
  \/ \E out \in AllOutcomes : ProfileCheckSettled(out)

LiveNext ==
  \/ Next
  \/ \E s \in Slots : CheckHangs(s)

LiveSpec == Init /\ [][LiveNext]_vars /\ WF_vars(Settles) /\ WF_vars(Server)

(* ------------- the check-and-grant endpoint under arbitrary callers ---------- *)
Invoked == {s \in Slots : calls[s].st # "none"}

\* the invocations are told apart by the order in which they are issued
SlotOrder == << "createPost", "comment", "like", "redesign", "fetch", "notify", "refresh" >>

\* the largest threshold of the catalog: a counter above it qualifies exactly as one at it
MaxThreshold ==
  CHOOSE v \in {Catalog[a].condition_value : a \in Achs} :
    \A a \in Achs : Catalog[a].condition_value <= v

\* some caller posts to achievements/check/{u}; after: the invocations answered before it
Invoke(s, u) ==
  /\ Cardinality(Invoked) < Min(MaxCalls, Len(SlotOrder))
  /\ s = SlotOrder[Cardinality(Invoked) + 1]
  /\ calls' = [calls EXCEPT ![s] = NewCall(u)]
  /\ audit' = [audit EXCEPT ![s].after = {x \in Slots : calls[x].st = "replied"}]
  /\ UNCHANGED << runs, displays, timers >>
  /\ UNCHANGED serverVars /\ UNCHANGED authVars /\ UNCHANGED evalVars

\* another subsystem moves a counter of u: a post, like or comment is added or removed
CounterMoves(u, t, d) ==
  /\ counters[u][t] + d \in 0..MaxThreshold
  /\ counters' = [counters EXCEPT ![u][t] = @ + d]
  /\ UNCHANGED << liked, userAchievements, now, calls, runs, displays, timers >>
  /\ UNCHANGED authVars /\ UNCHANGED evalVars /\ UNCHANGED audit

GrantInit == Init /\ isAuthenticated /\ \A p \in Posts : ~liked[p]

GrantNext ==
  \/ \E s \in Slots : Invoke(s, CurrentUser)
  \/ \E t \in CatalogTypes, d \in {-1, 1} : CounterMoves(CurrentUser, t, d)
  \/ \E c \in Slots : ServerSnapshot(c) /\ Audited(c)
  \/ \E c \in Slots : ServerCountersUnavailable(c)
  \/ \E c \in Slots, a \in Achs : ServerInsert(c, a)
  \/ \E c \in Slots, a \in Achs : ServerInsertFails(c, a)
  \/ \E c \in Slots : ServerRespond(c)
  \/ \E c \in Slots : ServerAborts(c)

GrantSpec == GrantInit /\ [][GrantNext]_vars

(* ----------------------- the progress evaluator alone ------------------- *)
EvalInit ==
  /\ SystemInit /\ isAuthenticated /\ \A p \in Posts : ~liked[p]
  /\ StoreIdle
  /\ ev_progress \in 0..MaxProgress
  /\ ev_target \in 1..MaxTarget
  /\ ev_pct = -1
  /\ ev_prev_progress = -1
  /\ ev_prev_pct = -1
  /\ LevelIdle
  /\ RankIdle
  /\ ListIdle
  /\ TableIdle

\* one AchievementView is computed for the counter value and the threshold
Evaluate ==
  /\ ev_pct = -1
  /\ ev_pct' = ProgressPercentage(ev_progress, ev_target)
  /\ UNCHANGED << ev_progress, ev_target, ev_prev_progress, ev_prev_pct >>
  /\ UNCHANGED notProgress /\ UNCHANGED appVars

\* the view is computed again, after the counter has moved to p
Reevaluate(p) ==
  /\ ev_pct # -1
  /\ ev_prev_progress' = ev_progress
  /\ ev_prev_pct' = ev_pct
  /\ ev_progress' = p
  /\ ev_pct' = ProgressPercentage(p, ev_target)
  /\ UNCHANGED ev_target
  /\ UNCHANGED notProgress /\ UNCHANGED appVars

EvalNext ==
  \/ Evaluate
  \/ \E p \in 0..MaxProgress : Reevaluate(p)

EvalSpec == EvalInit /\ [][EvalNext]_vars

(* --------------------------- the level display -------------------------- *)
Levels == {"beginner", "intermediate", "advanced"}

calculateRealTimeLevel_Exclusive(points) ==
  IF points > 200 THEN "advanced"
  ELSE IF points > 100 THEN "intermediate"
  ELSE "beginner"

calculateRealTimeLevel(points) ==
  IF points >= 200 THEN "advanced"
  ELSE IF points >= 100 THEN "intermediate"
  ELSE "beginner"

\* levelMap[level] || unknown: the names shown are written here in Latin letters
levelMap(level) ==
  CASE level = "beginner" -> "Xinxiu"
    [] level = "intermediate" -> "Jingying"
    [] level = "advanced" -> "Dashi"
    [] OTHER -> "Unknown"

\* getLevelName(skillLevel, points): points are given, the level is computed from them
getLevelName(skillLevel, points) == levelMap(calculateRealTimeLevel(points))

\* getLevelName(skillLevel): points are undefined, the stored level is used
getLevelNameStored(skillLevel) == levelMap(skillLevel)

calculatePointsProgress_NoCap(points) ==
  IF points >= 100 THEN 2 * 50 + ((points - 100) * 2 * 50) \div 100
  ELSE (points * 2 * 50) \div 100

\* calculatePointsProgress(points), in halves of a percent: every value the
\* code computes is a multiple of one half
calculatePointsProgress(points) ==
  IF points >= 200 THEN 2 * 100
  ELSE IF points >= 100 THEN 2 * 50 + ((points - 100) * 2 * 50) \div 100
  ELSE (points * 2 * 50) \div 100

\* the name of the home page's level card, from userInfo.skill_level
HomeLevelName(skillLevel) ==
  IF skillLevel = "beginner" THEN "Huanbao xinshou"
  ELSE IF skillLevel = "intermediate" THEN "Gaizao daren"
  ELSE "Chuangyi dashi"

HomeLevelNames == {HomeLevelName(l) : l \in Levels}

LevelInit ==
  /\ SystemInit /\ isAuthenticated /\ \A p \in Posts : ~liked[p]
  /\ StoreIdle
  /\ EvalIdle
  /\ RankIdle
  /\ ListIdle
  /\ TableIdle
  /\ lv_points \in 0..MaxPoints
  /\ lv_skill_level \in Levels
  /\ lv_level = "none"
  /\ lv_card = "none"
  /\ lv_width = -1
  /\ lv_row = "none"
  /\ lv_home = "none"

\* the level card of the profile page: the name and the progress bar
RenderLevelCard ==
  /\ lv_card = "none"
  /\ lv_level' = calculateRealTimeLevel(lv_points)
  /\ lv_card' = getLevelName(lv_skill_level, lv_points)
  /\ lv_width' = calculatePointsProgress(lv_points)
  /\ UNCHANGED << lv_points, lv_skill_level, lv_row, lv_home >>
  /\ UNCHANGED notLevel /\ UNCHANGED appVars

\* the user's row of the leaderboard on the profile page
RenderLeaderboardRow ==
  /\ lv_row = "none"
  /\ lv_row' = getLevelNameStored(lv_skill_level)
  /\ UNCHANGED << lv_points, lv_skill_level, lv_level, lv_card, lv_width, lv_home >>
  /\ UNCHANGED notLevel /\ UNCHANGED appVars

\* the level card of the home page
RenderHomeLevel ==
  /\ lv_home = "none"
  /\ lv_home' = HomeLevelName(lv_skill_level)
  /\ UNCHANGED << lv_points, lv_skill_level, lv_level, lv_card, lv_width, lv_row >>
  /\ UNCHANGED notLevel /\ UNCHANGED appVars

LevelNext ==
  \/ RenderLevelCard
  \/ RenderLeaderboardRow
  \/ RenderHomeLevel

LevelSpec == LevelInit /\ [][LevelNext]_vars

(* ------------------------------ the ranking ----------------------------- *)
\* leaderboard?limit=100
TopN == 100

\* the user_id of the user ranked i-th of total users
UserAtRank(i, total) == total - i + 1

\* data.leaderboard of the reply: the user_id of the first TopN users, by rank
Leaderboard(total) == [i \in 1..Min(total, TopN) |-> UserAtRank(i, total)]

\* leaderboard.findIndex(user => user.user_id === userId): 0-based, -1 when absent
FindIndex(board, userId) ==
  IF \E i \in 1..Len(board) : board[i] = userId
  THEN (CHOOSE i \in 1..Len(board) :
          /\ board[i] = userId
          /\ \A j \in 1..(i - 1) : board[j] # userId) - 1
  ELSE -1

\* Math.round(((total - rank) / total) * 100): the quotient is a binary
\* fraction, so a value that is exactly one half over an integer is rounded
\* to either side; every other value is rounded to the nearest integer
Percentiles(total, rank) ==
  IF total > 0
  THEN LET x == 100 * (total - rank)
       IN IF (2 * x) % (2 * total) = total
          THEN {x \div total, x \div total + 1}
          ELSE {RoundDiv(x, total)}
  ELSE {0}

FoundRanking_SnapshotLength(board, total, index, pct) ==
  [rank |-> index + 1, total_users |-> Len(board), percentile |-> pct]

\* the object passed to setUserRanking when the user is in the snapshot
FoundRanking(board, total, index, pct) ==
  [rank |-> index + 1, total_users |-> total, percentile |-> pct]

\* data of the reply of leaderboard/user/{userId}: the rank over all users
RankOf(userId, total) ==
  IF userId \in 1..total
  THEN LET r == CHOOSE i \in 1..total : UserAtRank(i, total) = userId
       IN [rank |-> r, total_users |-> total,
           percentile |-> RoundDiv(100 * (total - r), total)]
  ELSE [rank |-> total, total_users |-> total, percentile |-> 0]

AfterUserReply_Cleared(before, data, ok) == IF ok THEN data ELSE NoRanking

\* userRanking after the reply of leaderboard/user/{userId}
AfterUserReply(before, data, ok) == IF ok THEN data ELSE before

ShownBefore == {NoRanking, [rank |-> 1, total_users |-> 1, percentile |-> 0]}

RankInit ==
  /\ SystemInit /\ isAuthenticated /\ \A p \in Posts : ~liked[p]
  /\ StoreIdle
  /\ EvalIdle
  /\ LevelIdle
  /\ ListIdle
  /\ TableIdle
  /\ rk_total \in 0..MaxPopulation
  /\ rk_user \in 1..(IF rk_total = 0 THEN 1 ELSE rk_total)
  /\ rk_pc = "idle"
  /\ rk_index = -2
  /\ rk_queries = 0
  /\ rk_ranking \in ShownBefore
  /\ rk_before = rk_ranking
  /\ rk_error = FALSE

\* fetchUserRanking(userId) requests the leaderboard
StartFetchUserRanking ==
  /\ rk_pc = "idle"
  /\ rk_pc' = "board"
  /\ UNCHANGED << rk_total, rk_user, rk_index, rk_queries, rk_ranking, rk_before, rk_error >>
  /\ UNCHANGED notRank /\ UNCHANGED appVars

\* the leaderboard is answered with code 200
LeaderboardAnswered ==
  /\ rk_pc = "board"
  /\ LET board == Leaderboard(rk_total)
         currentUserRank == FindIndex(board, rk_user)
     IN /\ rk_index' = currentUserRank
        /\ IF currentUserRank # -1
           THEN /\ \E pct \in Percentiles(rk_total, currentUserRank + 1) :
                     rk_ranking' = FoundRanking(board, rk_total, currentUserRank, pct)
                /\ rk_pc' = "done"
                /\ UNCHANGED rk_queries
           ELSE /\ rk_queries' = rk_queries + 1
                /\ rk_pc' = "user"
                /\ UNCHANGED rk_ranking
  /\ UNCHANGED << rk_total, rk_user, rk_before, rk_error >>
  /\ UNCHANGED notRank /\ UNCHANGED appVars

\* the leaderboard is answered with another code, or the request throws
LeaderboardFails ==
  /\ rk_pc = "board"
  /\ rk_error' = TRUE
  /\ rk_pc' = "done"
  /\ UNCHANGED << rk_total, rk_user, rk_index, rk_queries, rk_ranking, rk_before >>
  /\ UNCHANGED notRank /\ UNCHANGED appVars

\* leaderboard/user/{userId} is answered with code 200 (ok), or with another
\* code, or the request throws
UserRankAnswered(ok) ==
  /\ rk_pc = "user"
  /\ rk_ranking' = AfterUserReply(rk_ranking, RankOf(rk_user, rk_total), ok)
  /\ rk_error' = ~ok
  /\ rk_pc' = "done"
  /\ UNCHANGED << rk_total, rk_user, rk_index, rk_queries, rk_before >>
  /\ UNCHANGED notRank /\ UNCHANGED appVars

RankNext ==
  \/ StartFetchUserRanking
  \/ LeaderboardAnswered
  \/ LeaderboardFails
  \/ \E ok \in BOOLEAN : UserRankAnswered(ok)

RankSpec == RankInit /\ [][RankNext]_vars

(* -------------------------- the achievement list ------------------------ *)
\* earned_at of the replies: timestamps written as strings, null when locked
EarnedAts == {"2024-03-02T09:00:00", "2024-03-10T09:00:00"}

\* new Date(earned_at).getTime(), counted in days; new Date(null) is the epoch
DateGetTime(earned_at) ==
  CASE earned_at = "2024-03-02T09:00:00" -> 19784
    [] earned_at = "2024-03-10T09:00:00" -> 19792
    [] OTHER -> 0

\* the fields of an Achievement the page orders by
Achievement(status, pct, earned_at) ==
  [status |-> status, progress_percentage |-> pct, earned_at |-> earned_at]

\* the views a reply can hold: earned_at is null exactly when locked
Achievements ==
  {Achievement("locked", pct, "null") : pct \in {0, 50, 100}}
    \cup {Achievement("achieved", 100, e) : e \in EarnedAts}

\* the id of a view is its place in the reply
Identified(views) == [i \in 1..Len(views) |-> [id |-> i, view |-> views[i]]]

Compare_AscendingProgress(a, b) ==
  IF a.status # "achieved" /\ b.status = "achieved" THEN -1
  ELSE IF a.status = "achieved" /\ b.status # "achieved" THEN 1
  ELSE IF a.status # "achieved" /\ b.status # "achieved"
       THEN a.progress_percentage - b.progress_percentage
  ELSE DateGetTime(a.earned_at) - DateGetTime(b.earned_at)

\* the function passed to sort
Compare(a, b) ==
  IF a.status # "achieved" /\ b.status = "achieved" THEN -1
  ELSE IF a.status = "achieved" /\ b.status # "achieved" THEN 1
  ELSE IF a.status # "achieved" /\ b.status # "achieved"
       THEN b.progress_percentage - a.progress_percentage
  ELSE DateGetTime(a.earned_at) - DateGetTime(b.earned_at)

RECURSIVE Inserted(_, _)
\* x put into the sorted s, after every element that does not compare greater
Inserted(s, x) ==
  IF s = << >> THEN << x >>
  ELSE IF Compare(s[Len(s)].view, x.view) > 0
       THEN Append(Inserted(SubSeq(s, 1, Len(s) - 1), x), s[Len(s)])
       ELSE Append(s, x)

RECURSIVE Sorted(_)
\* [...achievements].sort(compare): Array.prototype.sort is stable
Sorted(s) ==
  IF s = << >> THEN << >>
  ELSE Inserted(Sorted(SubSeq(s, 1, Len(s) - 1)), s[Len(s)])

ListInit ==
  /\ SystemInit /\ isAuthenticated /\ \A p \in Posts : ~liked[p]
  /\ StoreIdle
  /\ EvalIdle
  /\ LevelIdle
  /\ RankIdle
  /\ TableIdle
  /\ \E n \in 0..MaxListed : \E views \in [1..n -> Achievements] :
        sv_list = Identified(views)
  /\ sv_shown = << >>
  /\ sv_state = "waiting"

\* the reply of achievements/user/{userId} has code 200
SortAchievements ==
  /\ sv_state = "waiting"
  /\ sv_shown' = Sorted(sv_list)
  /\ sv_state' = "shown"
  /\ UNCHANGED sv_list
  /\ UNCHANGED notList /\ UNCHANGED appVars

\* the reply has another code, or the request throws
ListFails ==
  /\ sv_state = "waiting"
  /\ sv_state' = "failed"
  /\ UNCHANGED << sv_list, sv_shown >>
  /\ UNCHANGED notList /\ UNCHANGED appVars

ListNext ==
  \/ SortAchievements
  \/ ListFails

ListSpec == ListInit /\ [][ListNext]_vars

(* ---------------------------- the points table ------------------------- *)
Before_PointsOnly(points, v, u) == points[v] > points[u]

\* v is ranked before u: more points, or as many and the smaller user_id
Before(points, v, u) ==
  \/ points[v] > points[u]
  \/ points[v] = points[u] /\ v < u

\* the orders of all users that a sort by Before can return
Orders(points) ==
  {o \in [1..Cardinality(Ranked) -> Ranked] :
     /\ \A i, j \in DOMAIN o : i # j => o[i] # o[j]
     /\ \A i, j \in DOMAIN o : i < j => ~Before(points, o[j], o[i])}

\* rankOf by the full table: one more than the number of users ranked before u
FullTableRank(points, u) == 1 + Cardinality({v \in Ranked : Before(points, v, u)})

TableInit ==
  /\ SystemInit /\ isAuthenticated /\ \A p \in Posts : ~liked[p]
  /\ StoreIdle
  /\ EvalIdle
  /\ LevelIdle
  /\ RankIdle
  /\ ListIdle
  /\ tb_points \in [Ranked -> 0..MaxTablePoints]
  /\ tb_first = << >>
  /\ tb_second = << >>
  /\ tb_query = NoQuery

\* a first topN over the table
FirstTopN ==
  /\ tb_first = << >>
  /\ tb_first' \in Orders(tb_points)
  /\ UNCHANGED << tb_points, tb_second, tb_query >>
  /\ UNCHANGED notTable /\ UNCHANGED appVars

\* a second topN over the unchanged table
SecondTopN ==
  /\ tb_first # << >>
  /\ tb_second = << >>
  /\ tb_second' \in Orders(tb_points)
  /\ UNCHANGED << tb_points, tb_first, tb_query >>
  /\ UNCHANGED notTable /\ UNCHANGED appVars

\* the per-user rank query for user u over the same table
RankQuery(u) ==
  /\ tb_query = NoQuery
  /\ tb_query' = [user_id |-> u, rank |-> FullTableRank(tb_points, u)]
  /\ UNCHANGED << tb_points, tb_first, tb_second >>
  /\ UNCHANGED notTable /\ UNCHANGED appVars

TableNext ==
  \/ FirstTopN
  \/ SecondTopN
  \/ \E u \in Ranked : RankQuery(u)

TableSpec == TableInit /\ [][TableNext]_vars

(* ------------------------------ the auth store ------------------------- *)
\* the fields of the store
Store ==
  [user |-> au_user, token |-> au_token, isAuthenticated |-> isAuthenticated,
   isLoading |-> au_isLoading]

\* set({ user: null, token: null, isAuthenticated: false, isLoading: false })
Cleared == [user |-> FALSE, token |-> FALSE, isAuthenticated |-> FALSE, isLoading |-> FALSE]

\* set({ user, token, isAuthenticated: true, isLoading: false })
SignedIn == [user |-> TRUE, token |-> TRUE, isAuthenticated |-> TRUE, isLoading |-> FALSE]

LoginFailure_ClearsSession(store) == Cleared

\* the catch of login and of register: set({ isLoading: false })
LoginFailure(store) == [store EXCEPT !.isLoading = FALSE]

\* the store takes the value st
Set(st) ==
  /\ au_user' = st.user
  /\ au_token' = st.token
  /\ isAuthenticated' = st.isAuthenticated
  /\ au_isLoading' = st.isLoading

AuthInit ==
  /\ SystemInit /\ \A p \in Posts : ~liked[p]
  /\ StoreIdle
  /\ EvalIdle
  /\ LevelIdle
  /\ RankIdle
  /\ ListIdle
  /\ TableIdle

\* login(credentials): isLoading is set and auth/login is requested
StartLogin ==
  /\ au_pc["login"] = "idle"
  /\ au_pc' = [au_pc EXCEPT !["login"] = "fetch"]
  /\ au_result' = [au_result EXCEPT !["login"] = "none"]
  /\ Set([Store EXCEPT !.isLoading = TRUE])
  /\ UNCHANGED << auth_token, au_loggedOut >>
  /\ UNCHANGED notStore /\ UNCHANGED pageVars

\* auth/login settles: ok is an ok response with a parsable body
LoginAnswered(ok) ==
  /\ au_pc["login"] = "fetch"
  /\ au_pc' = [au_pc EXCEPT !["login"] = "idle"]
  /\ IF ok
       THEN /\ auth_token' = TRUE
            /\ Set(SignedIn)
            /\ au_result' = [au_result EXCEPT !["login"] = "resolved"]
            /\ au_loggedOut' = FALSE
       ELSE /\ Set(LoginFailure(Store))
            /\ au_result' = [au_result EXCEPT !["login"] = "rejected"]
            /\ UNCHANGED << auth_token, au_loggedOut >>
  /\ UNCHANGED notStore /\ UNCHANGED pageVars

\* register(userData): isLoading is set and auth/register is requested
StartRegister ==
  /\ au_pc["register"] = "idle"
  /\ au_pc' = [au_pc EXCEPT !["register"] = "fetch"]
  /\ au_result' = [au_result EXCEPT !["register"] = "none"]
  /\ Set([Store EXCEPT !.isLoading = TRUE])
  /\ UNCHANGED << auth_token, au_loggedOut >>
  /\ UNCHANGED notStore /\ UNCHANGED pageVars

\* auth/register settles: when ok, register calls login, which sets isLoading and
\* requests auth/login
RegisterAnswered(ok) ==
  /\ au_pc["register"] = "fetch"
  /\ IF ok
       THEN /\ au_pc' = [au_pc EXCEPT !["register"] = "login"]
            /\ Set([Store EXCEPT !.isLoading = TRUE])
            /\ UNCHANGED au_result
       ELSE /\ au_pc' = [au_pc EXCEPT !["register"] = "idle"]
            /\ Set(LoginFailure(Store))
            /\ au_result' = [au_result EXCEPT !["register"] = "rejected"]
  /\ UNCHANGED << auth_token, au_loggedOut >>
  /\ UNCHANGED notStore /\ UNCHANGED pageVars

\* the login called by register settles; a failure runs the catch of login and then
\* the catch of register
RegisterLoginAnswered(ok) ==
  /\ au_pc["register"] = "login"
  /\ au_pc' = [au_pc EXCEPT !["register"] = "idle"]
  /\ IF ok
       THEN /\ auth_token' = TRUE
            /\ Set(SignedIn)
            /\ au_result' = [au_result EXCEPT !["register"] = "resolved"]
            /\ au_loggedOut' = FALSE
       ELSE /\ Set(LoginFailure(LoginFailure(Store)))
            /\ au_result' = [au_result EXCEPT !["register"] = "rejected"]
            /\ UNCHANGED << auth_token, au_loggedOut >>
  /\ UNCHANGED notStore /\ UNCHANGED pageVars

\* logout(): the token is removed from localStorage and the store is cleared
Logout ==
  /\ auth_token' = FALSE
  /\ Set(Cleared)
  /\ au_loggedOut' = TRUE
  /\ UNCHANGED << au_pc, au_result >>
  /\ UNCHANGED notStore /\ UNCHANGED pageVars

\* checkAuth(): without a token in localStorage the store is cleared at once; with
\* one, isLoading is set and auth/me is requested with it
StartCheckAuth ==
  /\ au_pc["checkAuth"] = "idle"
  /\ IF auth_token
       THEN /\ au_pc' = [au_pc EXCEPT !["checkAuth"] = "fetch"]
            /\ Set([Store EXCEPT !.isLoading = TRUE])
       ELSE /\ Set(Cleared)
            /\ UNCHANGED au_pc
  /\ UNCHANGED << auth_token, au_result, au_loggedOut >>
  /\ UNCHANGED notStore /\ UNCHANGED pageVars

\* auth/me settles: when ok the user of the reply and the token read at the start are
\* stored; otherwise the token is removed and the store cleared
CheckAuthAnswered(ok) ==
  /\ au_pc["checkAuth"] = "fetch"
  /\ au_pc' = [au_pc EXCEPT !["checkAuth"] = "idle"]
  /\ IF ok
       THEN /\ Set(SignedIn)
            /\ UNCHANGED auth_token
       ELSE /\ auth_token' = FALSE
            /\ Set(Cleared)
  /\ UNCHANGED << au_result, au_loggedOut >>
  /\ UNCHANGED notStore /\ UNCHANGED pageVars

AuthNext ==
  \/ StartLogin
  \/ \E ok \in BOOLEAN : LoginAnswered(ok)
  \/ StartRegister
  \/ \E ok \in BOOLEAN : RegisterAnswered(ok)
  \/ \E ok \in BOOLEAN : RegisterLoginAnswered(ok)
  \/ Logout
  \/ StartCheckAuth
  \/ \E ok \in BOOLEAN : CheckAuthAnswered(ok)

AuthSpec == AuthInit /\ [][AuthNext]_vars

(* -------------------------------- claims -------------------------------- *)
InvocationsFor(u) == {s \in Slots : calls[s].st # "none" /\ calls[s].user_id = u}

\* the invocation has answered with code 200
Completed(s) == calls[s].st = "replied" /\ calls[s].code = 200

\* C1: when two or more check-and-grant invocations for one user have all completed,
\* each of them read a counter at or above an achievement's threshold and none had the
\* write for it fail, then (no row having existed at the start) the achievement is in
\* new_achievements of exactly one of the responses and exactly one row exists for the pair.
C1_ExactlyOnce ==
  \A u \in Users, a \in Achs :
    LET G == InvocationsFor(u)
    IN (/\ Cardinality(G) >= 2
        /\ \A s \in G : /\ Completed(s)
                        /\ Qualifies(audit[s].snap, a)
                        /\ a \notin calls[s].failed)
       => /\ Cardinality({s \in G : a \in calls[s].new}) = 1
          /\ Cardinality(RowsOf(userAchievements, u, a)) = 1

\* two invocations both found the achievement ungranted, both finished, one of them reported it
C1_Raced ==
  \E a \in Achs, s1, s2 \in Slots :
    /\ s1 # s2
    /\ Completed(s1) /\ Completed(s2)
    /\ calls[s1].user_id = calls[s2].user_id
    /\ a \in audit[s1].cand /\ a \in audit[s2].cand
    /\ a \in calls[s1].new /\ a \notin calls[s2].new
    /\ a \notin calls[s2].failed
    /\ Cardinality(RowsOf(userAchievements, calls[s1].user_id, a)) = 1

\* C2: when an invocation is issued after another one for the same user has answered, both
\* complete, both read the same counter values and the first had no failed write, the
\* second reports no new achievement and every row the first inserted is still there.
C2_Idempotent ==
  \A s1, s2 \in Slots :
    (/\ s1 \in audit[s2].after
     /\ calls[s1].user_id = calls[s2].user_id
     /\ Completed(s1) /\ Completed(s2)
     /\ calls[s1].failed = {}
     /\ audit[s1].snap = audit[s2].snap)
    => /\ calls[s2].new = {}
       /\ \A a \in calls[s1].new : RowsOf(userAchievements, calls[s1].user_id, a) # {}

\* the first call granted something, the second one, on the same counters, nothing
C2_SecondCallEmpty ==
  \E s1, s2 \in Slots :
    /\ s1 \in audit[s2].after
    /\ Completed(s1) /\ Completed(s2)
    /\ audit[s1].snap = audit[s2].snap
    /\ calls[s1].failed = {}
    /\ calls[s1].new # {}
    /\ calls[s2].new = {}
    /\ \A a \in calls[s1].new : RowsOf(userAchievements, calls[s1].user_id, a) # {}

AtMostOneRowPerPair ==
  \A u \in Users, a \in Achs : Cardinality(RowsOf(userAchievements, u, a)) <= 1

\* C3: in every state there is at most one row per (user_id, achievement_id), and no step
\* removes a row: the table only grows, also when a check runs on a counter that fell
\* below the threshold.
C3_RowsUniqueAndKept ==
  /\ []AtMostOneRowPerPair
  /\ [][userAchievements \subseteq userAchievements']_vars

\* a row outlives its condition: the counter is below the threshold again and a check
\* issued after the grant, reading the lower counter, has completed
C3_RowAfterCounterFell ==
  \E a \in Achs, s1, s2 \in Slots :
    /\ s1 \in audit[s2].after
    /\ a \in calls[s1].new
    /\ Completed(s2)
    /\ ~Qualifies(audit[s2].snap, a)
    /\ ~Qualifies(counters[calls[s1].user_id], a)
    /\ Cardinality(RowsOf(userAchievements, calls[s1].user_id, a)) = 1

\* C10: a computed progress_percentage is within 0..100, is 100 when the counter has
\* reached the threshold (47 against 10 gives 100), and is the integer nearest to
\* 100 * min(progress, target) / target.
C10_Percentage ==
  ev_pct # -1 =>
    LET m == Min(ev_progress, ev_target)
    IN /\ ev_pct \in 0..100
       /\ ev_progress >= ev_target => ev_pct = 100
       /\ 2 * ev_target * ev_pct - 200 * m <= ev_target
       /\ 200 * m - 2 * ev_target * ev_pct <= ev_target
       /\ (ev_progress = 47 /\ ev_target = 10) => ev_pct = 100

\* the evaluator ran on a counter of 47 against a threshold of 10
C10_OverCompleted == ev_progress = 47 /\ ev_target = 10 /\ ev_pct = 100

\* C11: between two evaluations of one achievement, when the counter has not
\* decreased, progress_percentage has not decreased either.
C11_Monotone ==
  (ev_prev_pct # -1 /\ ev_progress >= ev_prev_progress) => ev_pct >= ev_prev_pct

\* the counter went from 3 to 7 of 10 and the percentage from 30 to 70
C11_CounterRose ==
  /\ ev_target = 10 /\ ev_prev_progress = 3 /\ ev_progress = 7
  /\ ev_prev_pct = 30 /\ ev_pct = 70

\* C12: the level computed from points is advanced from 200 points on,
\* intermediate from 100 to 199 and beginner below 100; 99 is beginner, 100 and
\* 199 are intermediate, 200 is advanced.
C12_LevelFromPoints ==
  lv_level # "none" =>
    /\ lv_points >= 200 => lv_level = "advanced"
    /\ (100 <= lv_points /\ lv_points < 200) => lv_level = "intermediate"
    /\ lv_points < 100 => lv_level = "beginner"
    /\ lv_points = 99 => lv_level = "beginner"
    /\ lv_points \in {100, 199} => lv_level = "intermediate"
    /\ lv_points = 200 => lv_level = "advanced"

C12_AdvancedAt200 == lv_points = 200 /\ lv_level = "advanced"

\* C13: the width of the progress bar is 100 times the fraction: the fraction
\* is 1 from 200 points on, 0.5 + (points - 100) / 100 * 0.5 from 100 to 199 and
\* points / 100 * 0.5 below 100 (99 gives 49.5, 100 gives 50, 199 gives 99.5 and
\* 200 gives 100); it lies in 0..100 and does not decrease when a point is added.
\* lv_width counts halves of a percent, so 200 * fraction = lv_width.
C13_PointsProgress ==
  lv_width # -1 =>
    /\ lv_points >= 200 => lv_width = 200
    /\ (100 <= lv_points /\ lv_points < 200) =>
         100 * lv_width = 100 * 100 + (lv_points - 100) * 100
    /\ lv_points < 100 => 100 * lv_width = lv_points * 100
    /\ lv_points = 99 => lv_width = 99
    /\ lv_points = 100 => lv_width = 100
    /\ lv_points = 199 => lv_width = 199
    /\ lv_points = 200 => lv_width = 200
    /\ 0 <= lv_width /\ lv_width <= 200
    /\ calculatePointsProgress(lv_points + 1) >= lv_width

C13_HalfBelowTop == lv_points = 199 /\ lv_width = 199

\* the place of an invocation in the order of issue
Position(s) == CHOOSE i \in 1..Len(SlotOrder) : SlotOrder[i] = s

\* the invocations issued before s2: each one has failed on the server, or is still
\* running there or has answered while its caller, seeing no answer in time, tries again
AttemptsBefore(s2) == {s1 \in Invoked : Position(s1) < Position(s2)}

\* C18: when an invocation has failed or timed out, before, between or after its
\* grant inserts, and the same user's check is invoked again, the retry can always
\* take its next step, and once it has completed there is no second row for any
\* pair, the retry reports nothing the earlier attempt inserted, and every row the
\* earlier attempt inserted is still there.
C18_RetrySafe ==
  \A s2 \in Invoked : \A s1 \in AttemptsBefore(s2) :
    calls[s1].user_id = calls[s2].user_id =>
      /\ calls[s2].st = "sent" => ENABLED (ServerSnapshot(s2) /\ Audited(s2))
      /\ (calls[s2].st = "granting" /\ calls[s2].pending # {}) =>
           ENABLED ServerInsert(s2, NextPending(s2))
      /\ (calls[s2].st = "granting" /\ calls[s2].pending = {}) =>
           ENABLED ServerRespond(s2)
      /\ Completed(s2) =>
           /\ AtMostOneRowPerPair
           /\ calls[s2].new \cap calls[s1].new = {}
           /\ \A a \in calls[s1].new :
                Cardinality(RowsOf(userAchievements, calls[s1].user_id, a)) = 1

\* the first attempt failed between its two inserts; the retry, issued after the
\* failure, granted the other achievement and both rows are there
C18_RetriedAfterPartialGrant ==
  \E s2 \in Invoked : \E s1 \in AttemptsBefore(s2) :
    /\ calls[s1].st = "failed" /\ calls[s1].new # {} /\ calls[s1].pending # {}
    /\ calls[s1].new \cap audit[s2].cand = {}
    /\ Completed(s2) /\ calls[s2].new = calls[s1].pending
    /\ \A a \in calls[s1].new \cup calls[s2].new :
         Cardinality(RowsOf(userAchievements, CurrentUser, a)) = 1

\* status and earned_at of every view agree with the rows
ViewsFollowRows ==
  \A u \in Users, a \in Achs :
    LET view == AchievementView(u, a)
    IN /\ view.status = "achieved" <=> RowsOf(userAchievements, u, a) # {}
       /\ view.earned_at # Null <=> view.status = "achieved"

LostRace(s, a) ==
  /\ calls[s].st \in {"granting", "replied"}
  /\ a \in audit[s].cand
  /\ a \notin calls[s].pending \cup calls[s].new \cup calls[s].failed

\* C21: an invocation whose insert for an achievement found the row already there does
\* not fail: it goes on with the next candidate, answers with code 200, leaves that
\* achievement out of new_achievements, and every other candidate whose write did not
\* fail has its row when the invocation has answered.
C21_LostRaceNotAnError ==
  \A s \in Invoked, a \in Achs :
    LostRace(s, a) =>
      /\ a \notin calls[s].new
      /\ Cardinality(RowsOf(userAchievements, calls[s].user_id, a)) = 1
      /\ calls[s].pending # {} => ENABLED ServerInsert(s, NextPending(s))
      /\ calls[s].st = "replied" =>
           /\ calls[s].code = 200
           /\ \A b \in audit[s].cand \ calls[s].failed :
                Cardinality(RowsOf(userAchievements, calls[s].user_id, b)) = 1

\* an invocation lost the race for the first achievement and then granted the second
C21_LostOneGrantedNext ==
  \E s \in Invoked :
    /\ Completed(s)
    /\ audit[s].cand = {1, 2}
    /\ LostRace(s, 1)
    /\ calls[s].new = {2}

\* some other invocation reported a
ReportedElsewhere(s, a) == \E x \in Invoked \ {s} : a \in calls[x].new

\* C22: when an invocation has answered and the write for one of its candidates failed,
\* every other candidate has its row and is in new_achievements of this invocation (or
\* of the one that won the race for it); the failed one is not reported by this
\* invocation and has no row, unless another invocation inserted it.
C22_FailedWriteSkipsOnlyItself ==
  \A s \in Invoked :
    (Completed(s) /\ calls[s].failed # {}) =>
      /\ \A a \in calls[s].failed :
           /\ a \notin calls[s].new
           /\ RowsOf(userAchievements, calls[s].user_id, a) # {} => ReportedElsewhere(s, a)
      /\ \A b \in audit[s].cand \ calls[s].failed :
           /\ Cardinality(RowsOf(userAchievements, calls[s].user_id, b)) = 1
           /\ b \in calls[s].new \/ ReportedElsewhere(s, b)

\* the write for the first achievement failed, the second was granted by the same call
C22_OneFailedOtherGranted ==
  \E s \in Invoked :
    /\ Completed(s)
    /\ audit[s].cand = {1, 2} /\ calls[s].failed = {1} /\ calls[s].new = {2}
    /\ RowsOf(userAchievements, calls[s].user_id, 1) = {}
    /\ Cardinality(RowsOf(userAchievements, calls[s].user_id, 2)) = 1

\* what a check that could not read the counters has done
NothingGranted(s) ==
  /\ calls[s].st = "replied"
  /\ calls[s].new = {} /\ calls[s].pending = {} /\ calls[s].failed = {}
  /\ audit[s].cand = {}

\* C23: a check that finds the counter source unavailable answers with the error
\* (code 503) in that very step, which leaves the UserAchievement rows as they were;
\* such a check has no candidate, inserts nothing and reports nothing.
C23_CountersUnavailable ==
  /\ [](\A s \in Invoked : calls[s].code = 503 => NothingGranted(s))
  /\ [][\A c \in Slots :
          ServerCountersUnavailable(c) =>
            /\ calls'[c].st = "replied" /\ calls'[c].code = 503
            /\ calls'[c].new = {}
            /\ userAchievements' = userAchievements]_vars

\* the only check made failed for lack of counters while the user qualified: no row
C23_FailedWhileQualifying ==
  \E s \in Invoked :
    /\ Invoked = {s}
    /\ calls[s].code = 503 /\ NothingGranted(s)
    /\ \A a \in Achs : Qualifies(counters[calls[s].user_id], a)
    /\ userAchievements = {}

\* C25: when an invocation has answered with no failed write, every achievement whose
\* threshold the counter it read had reached has a row for the user.
C25_QualifiedHasRow ==
  \A s \in Invoked, a \in Achs :
    (/\ Completed(s)
     /\ calls[s].failed = {}
     /\ audit[s].snap[Catalog[a].condition_type] >= Catalog[a].condition_value)
    => RowsOf(userAchievements, calls[s].user_id, a) # {}

\* the second invocation read qualifying counters and granted nothing itself: the rows
\* were written by the invocation before it
C25_RowFromEarlierCall ==
  \E s \in Invoked :
    /\ Completed(s) /\ calls[s].failed = {} /\ calls[s].new = {}
    /\ audit[s].cand = {}
    /\ \A a \in Achs :
         /\ audit[s].snap[Catalog[a].condition_type] >= Catalog[a].condition_value
         /\ ReportedElsewhere(s, a)
         /\ RowsOf(userAchievements, calls[s].user_id, a) # {}

\* C26: every row belongs to an achievement that some invocation for that user holds in
\* its new_achievements, and that invocation read a counter at or above the
\* achievement's condition_value; everything in new_achievements of an invocation was a
\* candidate of it, has a row, and is in new_achievements of no other invocation.
C26_RowsOnlyForQualified ==
  /\ \A row \in userAchievements :
       \E s \in Invoked :
         /\ calls[s].user_id = row.user_id
         /\ row.achievement_id \in calls[s].new
         /\ audit[s].snap[Catalog[row.achievement_id].condition_type]
              >= Catalog[row.achievement_id].condition_value
  /\ \A s \in Invoked : \A a \in calls[s].new :
       /\ a \in audit[s].cand
       /\ audit[s].snap[Catalog[a].condition_type] >= Catalog[a].condition_value
       /\ RowsOf(userAchievements, calls[s].user_id, a) # {}
       /\ ~ReportedElsewhere(s, a)

\* one achievement was granted by a call that read the other counter at 0: the other
\* achievement has no row and is in no new_achievements
C26_OnlyOneQualified ==
  \E s \in Invoked :
    /\ Completed(s)
    /\ calls[s].new = {1}
    /\ audit[s].snap[Catalog[2].condition_type] = 0
    /\ RowsOf(userAchievements, calls[s].user_id, 2) = {}
    /\ Cardinality(userAchievements) = 1

C15_FallbackQuery ==
  /\ rk_index = -2 => rk_queries = 0
  /\ rk_index # -2 => (rk_queries = 1 <=> rk_index = -1)
  /\ (rk_pc = "done" /\ rk_index = -1 /\ ~rk_error /\ rk_user \notin 1..rk_total) =>
       rk_ranking = [rank |-> rk_total, total_users |-> rk_total, percentile |-> 0]
  /\ (rk_pc = "done" /\ rk_index = -1 /\ ~rk_error /\ rk_user \in 1..rk_total) =>
       /\ rk_ranking.rank \in 1..rk_total
       /\ UserAtRank(rk_ranking.rank, rk_total) = rk_user
       /\ rk_ranking.total_users = rk_total
       /\ LET d == 2 * rk_total * rk_ranking.percentile
                      - 200 * (rk_total - rk_ranking.rank)
          IN d <= rk_total /\ -d <= rk_total
  /\ (rk_pc = "done" /\ rk_index = -1 /\ rk_error) => rk_ranking = rk_before
  /\ (rk_pc = "done" /\ ~rk_error /\ rk_total = 50 /\ rk_ranking.rank = 50) =>
       rk_ranking.percentile = 0

\* a user ranked after the snapshot is shown the rank of the dedicated reply,
\* in place of a ranking shown before
C15_RankedAfterSnapshot ==
  /\ rk_pc = "done" /\ rk_index = -1 /\ rk_queries = 1 /\ ~rk_error
  /\ rk_before # NoRanking
  /\ rk_ranking = [rank |-> TopN + 1, total_users |-> TopN + 2, percentile |-> 1]

\* C16: in the list displayed every view not achieved precedes every achieved
\* one; the views not achieved are in non-increasing order of
\* progress_percentage; the achieved ones in non-decreasing order of earned_at;
\* the list holds the views of the reply, each once.
C16_DisplayOrder ==
  sv_state = "shown" =>
    /\ Len(sv_shown) = Len(sv_list)
    /\ \A i \in 1..Len(sv_list) :
         Cardinality({j \in 1..Len(sv_shown) : sv_shown[j] = sv_list[i]}) = 1
    /\ \A i, j \in 1..Len(sv_shown) : i < j =>
         LET a == sv_shown[i].view
             b == sv_shown[j].view
         IN /\ ~(a.status = "achieved" /\ b.status # "achieved")
            /\ (a.status # "achieved" /\ b.status # "achieved") =>
                 a.progress_percentage >= b.progress_percentage
            /\ (a.status = "achieved" /\ b.status = "achieved") =>
                 DateGetTime(a.earned_at) <= DateGetTime(b.earned_at)

\* a reply with the later grant first, then the earlier one, then a view at 0
\* and a view at 50 percent is displayed in the opposite order
C16_Reordered ==
  /\ sv_state = "shown" /\ Len(sv_list) = 4
  /\ sv_list[1].view = Achievement("achieved", 100, "2024-03-10T09:00:00")
  /\ sv_list[2].view = Achievement("achieved", 100, "2024-03-02T09:00:00")
  /\ sv_list[3].view = Achievement("locked", 0, "null")
  /\ sv_list[4].view = Achievement("locked", 50, "null")
  /\ sv_shown = << sv_list[4], sv_list[3], sv_list[2], sv_list[1] >>

\* C17: every level name displayed (the level card of the profile page, a row
\* of the leaderboard, the level card of the home page) is the name of the level
\* computed from the user's points, whatever skill_level is stored.
C17_LevelNeverStored ==
  /\ lv_card # "none" => lv_card = levelMap(calculateRealTimeLevel(lv_points))
  /\ lv_row # "none" => lv_row = levelMap(calculateRealTimeLevel(lv_points))
  /\ lv_home # "none" => lv_home = HomeLevelName(calculateRealTimeLevel(lv_points))

(* the client *)
\* the places where fetchUserAchievements posts the check, and where the notifier does
FetchSlots == {"fetch", "refresh"}
NotifierSlots == Slots \ FetchSlots

\* the messages shown that tell the user of new achievements
Celebratory == {m \in BagToSet(displays) : m.kind \in {"celebration", "summary"}}

Announced(s, a) ==
  \/ BagIn(Celebration(s, a), displays)
  \/ a \in calls[s].new /\ \E n \in Achs : BagIn(Summary(s, n), displays)

\* C5: no achievement is announced as newly earned by two different triggers of the client.
C5_AnnouncedOnce ==
  \A a \in Achs : Cardinality({s \in Slots : Announced(s, a)}) <= 1

\* one trigger announced the achievement; another trigger of another handler was answered
\* with code 200 too and has been handled
C5_TwoTriggers ==
  \E a \in Achs, s1, s2 \in Slots :
    /\ s1 # s2
    /\ Completed(s1) /\ Completed(s2)
    /\ Announced(s1, a)
    /\ \A k \in Kinds : runs[k].pc \in {"idle", "done"}

\* C6: a handler whose primary request succeeded never enters its error branch and ends
\* having reported success, whatever the check did (network error, non-200 code,
\* malformed body).
C6_CheckNeverFailsAction ==
  \A k \in ActionKinds :
    runs[k].primaryOk => /\ ~runs[k].error
                         /\ runs[k].pc = "done" => runs[k].success

\* a handler finished with success although its check was lost or answered with code 503
C6_FailedCheckSurvived ==
  \E k \in ActionKinds :
    /\ runs[k].pc = "done" /\ runs[k].primaryOk /\ runs[k].success /\ ~runs[k].error
    /\ runs[k].issued = {k}
    /\ calls[k].st = "lost" \/ calls[k].code = 503

\* C7 (as stated): once the primary request of an action has succeeded, the handler
\* reaches its end (modal closed, input cleared, list refreshed, flag reset), whether
\* or not the check-and-grant request ever returns.
C7_RemainingStepsReached ==
  \A k \in ActionKinds : runs[k].primaryOk ~> (runs[k].pc = "done")

\* C8: a handler's check-and-grant exists only if its primary request was answered
\* successfully; a handler stopped by a guard or by a failed primary request issued none.
C8_CheckOnlyAfterSuccess ==
  \A k \in ActionKinds :
    /\ (runs[k].issued # {} \/ calls[k].st # "none") =>
         runs[k].primaryOk /\ runs[k].pc \notin {"idle", "primary"}
    /\ (runs[k].rejected \/ (runs[k].pc = "done" /\ ~runs[k].primaryOk)) =>
         runs[k].issued = {} /\ calls[k].st = "none"

\* one handler issued its check after a successful primary request, another one's primary
\* request failed and it issued none
C8_OneIssuedOneNot ==
  \E k1, k2 \in ActionKinds :
    /\ runs[k1].primaryOk /\ runs[k1].issued = {k1} /\ calls[k1].st # "none"
    /\ runs[k2].pc = "done" /\ runs[k2].error /\ ~runs[k2].primaryOk
    /\ calls[k2].st = "none"

\* C9 (as stated): a handler whose action raised a counter (a post, a like received, a
\* comment, a project) has issued a check-and-grant for the user whose counter moved, and
\* a profile view of a logged-in user has issued one.
C9_CheckAfterEveryMove ==
  /\ \A k \in ActionKinds :
       (runs[k].pc = "done" /\ runs[k].moved # 0 /\ ~runs[k].isLiked) =>
         \E s \in runs[k].issued : calls[s].user_id = runs[k].moved
  /\ (runs["profile"].pc = "done" /\ ~runs["profile"].rejected) =>
       runs["profile"].issued # {}

\* C19: when the check request issued by fetchUserAchievements never reached the
\* server (a network error), the page shows no error message for it.
C19_CheckFailureSilent ==
  \A s \in FetchSlots :
    calls[s].st = "lost" => ~BagIn(ErrorShown(s), displays)

\* no login, register or checkAuth is in flight
AuthAtRest == \A op \in AuthOps : au_pc[op] = "idle"

\* a step in which a login or a register fails
AuthFailure ==
  \/ LoginAnswered(FALSE)
  \/ RegisterAnswered(FALSE)
  \/ RegisterLoginAnswered(FALSE)

\* the call that failed in this step was rejected
Rethrown ==
  \/ au_pc["login"] # "idle" /\ au_result'["login"] = "rejected"
  \/ au_pc["register"] # "idle" /\ au_result'["register"] = "rejected"

\* C28: while no login, register or checkAuth is in flight, isLoading is false and
\* isAuthenticated is true exactly when user and token are both non-null; a failed
\* login or register leaves user, token and isAuthenticated as they were, sets
\* isLoading to false and rejects with the error.
C28_AuthStoreConsistent ==
  /\ [](AuthAtRest => /\ ~au_isLoading
                       /\ isAuthenticated <=> (au_user /\ au_token))
  /\ [][AuthFailure => /\ UNCHANGED << au_user, au_token, isAuthenticated, auth_token >>
                        /\ au_isLoading' = FALSE
                        /\ Rethrown]_vars

\* a login failed while the user was signed in, and the session is still there
C28_FailedLoginKeepsSession ==
  /\ AuthAtRest
  /\ au_result["login"] = "rejected"
  /\ isAuthenticated /\ au_user /\ au_token

\* C29: from logout until a login succeeds the store is unauthenticated and
\* localStorage holds no auth_token, whatever a checkAuth that was in flight does.
C29_StaysLoggedOut ==
  au_loggedOut => ~isAuthenticated /\ ~au_user /\ ~au_token /\ ~auth_token

\* the profile load, its delayed refresh and the endpoint, while the user may like a post
ProfileNext ==
  \/ \E p \in Posts : StartLike(p)
  \/ \E ok \in BOOLEAN : LikeAnswered(ok)
  \/ \E k \in Kinds, out \in AllOutcomes : CheckSettled(k, out)
  \/ StartLoadUserInfo
  \/ TimerFires
  \/ \E k \in Kinds, out \in AllOutcomes : FetchCheckSettled(k, out)
  \/ \E k \in Kinds, listOk \in BOOLEAN : FetchListSettled(k, listOk)
  \/ \E out \in AllOutcomes : ProfileCheckSettled(out)
  \/ Server

\* every request is answered or fails: no promise stays pending for ever, and a timer
\* that was set fires
ProfileSpec ==
  Init /\ [][ProfileNext]_vars /\ WF_vars(Settles) /\ WF_vars(Server) /\ WF_vars(TimerFires)

\* C27 (as stated): every achievement granted to the user is eventually announced to
\* the user by some trigger of the client, also when the response of the invocation
\* that inserted the row is lost.
C27_GrantedIsAnnounced ==
  \A a \in Achs :
    HasRow(userAchievements, CurrentUser, a) ~> (\E s \in Slots : Announced(s, a))

\* the check-and-grant requests of the profile load and of its delayed refresh
ProfileChecks == runs["profile"].issued \cup runs["refresh"].issued

\* the profile load and what it started are over, and both flags are false
ProfileQuiet ==
  /\ runs["profile"].pc = "done"
  /\ ~runs["profile"].loading /\ ~runs["profile"].aload
  /\ runs["refresh"].pc \in {"idle", "done"}
  /\ ~runs["refresh"].aload
  /\ timers = 0

\* C30: a profile load of an authenticated user issues one check-and-grant in
\* fetchUserAchievements, one in checkAndNotifyAchievements and at most one more from
\* the delayed refresh, which sets no timer; once started it comes to rest with the
\* loading flag and achievementsLoading false, and stays so, whatever the requests did.
C30_ProfileLoadTerminates ==
  /\ [](/\ ProfileChecks \subseteq {"fetch", "notify", "refresh"}
        /\ timers <= 1
        /\ runs["refresh"].pc # "idle" => timers = 0)
  /\ (runs["profile"].pc # "idle") ~> ProfileQuiet
  /\ [][ProfileQuiet => ProfileQuiet']_vars

\* the load is over after its first check failed, its second one celebrated an
\* achievement, and the delayed refresh ran
C30_RefreshedAfterFailure ==
  /\ ProfileQuiet
  /\ ProfileChecks = {"fetch", "notify", "refresh"}
  /\ calls["fetch"].st = "lost"
  /\ \E a \in Achs : BagIn(Celebration("notify", a), displays)

====
